---- MODULE Spec2Model ----
(***************************************************************************)
(* Account service of src/app.js: an in-memory Map of user records behind  *)
(* four Express handlers (signup, GET, PATCH, close) and a start-up seed.  *)
(* Handlers run on one event loop and yield only at their await points     *)
(* (bcrypt.hash in signup and in the seed, bcrypt.compare in               *)
(* authUserAsync), so every action below is one run-to-completion segment  *)
(* of a handler between two awaits.                                        *)
(*                                                                         *)
(* Strings are sequences of character codes.  A JSON / JavaScript value is *)
(* a record [t, s, n]: t is the type tag, s the characters of a string,    *)
(* n the value of a number.  The one object considered is the JSON value   *)
(* {"toString":1,"valueOf":1}, which has no conversion to a string.        *)
(***************************************************************************)
EXTENDS Integers, Sequences, FiniteSets, TLC

VARIABLES users, seed, reqs, signedUp, closed, cleared, named

vars == <<users, seed, reqs, signedUp, closed, cleared, named>>

\* History of the responses sent, read by the properties only:
\* signedUp holds the user_ids created by a signup that responded 200 and not
\* closed since; closed holds the user_ids removed by a close that responded
\* 200 and not created again since; cleared holds the user_ids whose latest
\* successful PATCH of comment set "" (no close since); named holds the pairs
\* <<user_id, v>> of the signed-up accounts whose latest successful PATCH of
\* nickname set the non-empty v (no close since).
hist == <<signedUp, closed, cleared, named>>

(* ---------------- JavaScript values ---------------- *)

Undef == [t |-> "undefined", s |-> <<>>, n |-> 0]

Null == [t |-> "null", s |-> <<>>, n |-> 0]

Str(chars) == [t |-> "string", s |-> chars, n |-> 0]

Num(k) == [t |-> "number", s |-> <<>>, n |-> k]

\* {"toString":1,"valueOf":1}: its own toString and valueOf are not callable
Obj == [t |-> "object", s |-> <<>>, n |-> 0]

\* String(v) returns; for Obj it throws a TypeError
HasString(v) == v.t # "object"

\* !v
Falsy(v) ==
  \/ v.t \in {"undefined", "null"}
  \/ v.t = "string" /\ Len(v.s) = 0
  \/ v.t = "number" /\ v.n = 0

\* v ?? d
Coalesce(v, d) == IF v.t \in {"undefined", "null"} THEN d ELSE v

\* v.length < lo || v.length > hi : .length of a number is undefined and
\* every comparison with undefined is false.
LengthOutside(v, lo, hi) ==
  v.t = "string" /\ (Len(v.s) < lo \/ Len(v.s) > hi)

RECURSIVE Digits(_)
Digits(k) == IF k < 10 THEN <<48 + k>> ELSE Digits(k \div 10) \o <<48 + (k % 10)>>

\* String(v), the coercion RegExp.prototype.test applies to its argument,
\* for the values that have one
ToStr(v) ==
  CASE v.t = "string" -> v.s
    [] v.t = "number" -> Digits(v.n)
    [] v.t = "null" -> <<110, 117, 108, 108>>
    [] OTHER -> <<117, 110, 100, 101, 102, 105, 110, 101, 100>>

IsAlnum(c) == c \in (48..57) \cup (65..90) \cup (97..122)

IsVisible(c) == c \in 33..126

IsCtrl(c) == c \in (0..31) \cup {127}

\* /^[A-Za-z0-9]{6,20}$/.test(v)
isValidUserId(v) ==
  LET str == ToStr(v)
  IN Len(str) >= 6 /\ Len(str) <= 20 /\ \A i \in 1..Len(str) : IsAlnum(str[i])

\* /^[\x21-\x7E]{8,20}$/.test(v)
isValidPassword(v) ==
  LET str == ToStr(v)
  IN Len(str) >= 8 /\ Len(str) <= 20 /\ \A i \in 1..Len(str) : IsVisible(str[i])

\* /^[^\x00-\x1F\x7F]*$/.test(str), called on strings only
noCtrl(str) == \A i \in 1..Len(str) : ~IsCtrl(str[i])

(* ---------------- password hasher ---------------- *)

\* bcrypt.hash(data, 10) rejects unless data is a string (or Buffer)
Hashable(v) == v.t = "string"

\* the hash is opaque: it is not the password and only compare relates them
bcryptHash(v) == [bcrypt |-> v.s]

\* bcrypt.compare(password, hash)
bcryptCompare(password, hash) == hash.bcrypt = password

(* ---------------- the store: a Map of entries ---------------- *)

MapKeys(m) == {e.key : e \in m}

MapHas(m, k) == \E e \in m : e.key = k

MapGet(m, k) == (CHOOSE e \in m : e.key = k).val

\* a store that appends an entry without replacing the one under the key
MapSetAppend(m, k, v) == m \cup {[key |-> k, val |-> v]}

MapSet(m, k, v) == {e \in m : e.key # k} \cup {[key |-> k, val |-> v]}

MapDelete(m, k) == {e \in m : e.key # k}

NoUser == [user_id |-> Undef, passwordHash |-> [bcrypt |-> <<>>],
           nickname |-> Undef, comment |-> Undef]

(* ---------------- Basic authentication ---------------- *)

\* raw.indexOf(":"), 0 standing for -1
IndexOfColon(raw) ==
  IF \E i \in 1..Len(raw) : raw[i] = 58
  THEN CHOOSE i \in 1..Len(raw) : raw[i] = 58 /\ \A j \in 1..(i - 1) : raw[j] # 58
  ELSE 0

NoCred == [present |-> FALSE, user_id |-> <<>>, password |-> <<>>]

\* hdr.scheme is "none" for a request without Authorization header, "basic"
\* for one that matches /^Basic\s*/i and "other" for any other value;
\* hdr.raw is the text the base64 payload decodes to.
parseBasicAuth(hdr) ==
  IF hdr.scheme # "basic" THEN NoCred
  ELSE LET idx == IndexOfColon(hdr.raw)
       IN IF idx = 0 THEN NoCred
          ELSE [present |-> TRUE,
                user_id |-> SubSeq(hdr.raw, 1, idx - 1),
                password |-> SubSeq(hdr.raw, idx + 1, Len(hdr.raw))]

(* ---------------- responses ---------------- *)

NoView == [user_id |-> Undef, nickname |-> Undef, comment |-> Undef]

NoResp == [status |-> 0, message |-> "", cause |-> "", user |-> NoView]

\* res.status(st).json({message, cause, user}); a property whose value is
\* undefined is not serialised, so Undef in a view means "omitted".
Response(st, msg, cause, view) ==
  [status |-> st, message |-> msg, cause |-> cause, user |-> view]

SignupFailed(cause) == Response(400, "Account creation failed", cause, NoView)

AuthFailed == Response(401, "Authentication failed", "", NoView)

NotFound == Response(404, "No user found", "", NoView)

Forbidden == Response(403, "No permission for update", "", NoView)

UpdateFailed(cause) == Response(400, "User updation failed", cause, NoView)

(* ---------------- requests ---------------- *)

NoHdr == [scheme |-> "none", raw |-> <<>>]

NoBody == [user_id |-> Undef, password |-> Undef, nickname |-> Undef, comment |-> Undef]

\* pc: "idle" (not yet received), "recv" (parsed, handler about to run),
\* "hash" (signup awaiting bcrypt.hash), "compare" (authUserAsync awaiting
\* bcrypt.compare), "done" (response sent), "fault" (the handler's promise
\* rejected: the handler sends no response).
\* u is the record authUserAsync read before its await; lost is history: a
\* signup for the same user_id completed while this signup awaited its hash.
IdleReq == [pc |-> "idle", op |-> "none", hdr |-> NoHdr, path |-> Undef,
            body |-> NoBody, u |-> NoUser, lost |-> FALSE, resp |-> NoResp]

Finished(r, resp) ==
  [IdleReq EXCEPT !.pc = "done", !.op = reqs[r].op, !.lost = reqs[r].lost, !.resp = resp]

(* ---------------- the inputs explored ---------------- *)

\* number of requests received in one run; request r is the r-th to arrive
MaxRequests == 3

Slots == 1..MaxRequests

\* number of requests received in one run of SpecSerial
MaxSerial == 2

\* "TaroYamada", the seed's user_id (line 238)
TaroYamada == <<84, 97, 114, 111, 89, 97, 109, 97, 100, 97>>

\* "PaSSwd4TY", the seed's password (line 239)
PaSSwd4TY == <<80, 97, 83, 83, 119, 100, 52, 84, 89>>

\* "alice1", a valid user_id of minimal length
Alice == <<97, 108, 105, 99, 101, 49>>

\* "Pass:w0rd", a valid password that contains the separator of Basic credentials
PassColon == <<80, 97, 115, 115, 58, 119, 48, 114, 100>>

\* "Bob"
Bob == <<66, 111, 98>>

\* "hi"
Hi == <<104, 105>>

Repeat(c, k) == [i \in 1..k |-> c]

\* user_id values of signup payloads: absent, "", 5 letters, 21 letters,
\* "abc 123456", two valid ids, the JSON number 123456 and the object
SignupUserIds ==
  {Undef, Str(<<>>), Str(Repeat(97, 5)), Str(Repeat(97, 21)),
   Str(<<97, 98, 99, 32, 49, 50, 51, 52, 53, 54>>),
   Str(TaroYamada), Str(Alice), Num(123456), Obj}

\* password values of signup payloads: absent, 7 characters, 21 characters,
\* "Pass word1", two valid passwords, the JSON number 12345678 and the object
SignupPasswords ==
  {Undef, Str(Repeat(80, 7)), Str(Repeat(80, 21)),
   Str(<<80, 97, 115, 115, 32, 119, 111, 114, 100, 49>>),
   Str(PaSSwd4TY), Str(PassColon), Num(12345678), Obj}

\* nickname is absent, "" or "Bob"; comment is absent or "hi"
SignupBodies ==
  [user_id : SignupUserIds, password : SignupPasswords,
   nickname : {Undef, Str(<<>>), Str(Bob)}, comment : {Undef, Str(Hi)}]

\* nickname of PATCH payloads: absent, "", "Bob", a number, 31 letters, a
\* string with a control character
PatchNicknames ==
  {Undef, Str(<<>>), Str(Bob), Num(5), Str(Repeat(97, 31)), Str(<<66, 9, 98>>)}

\* comment of PATCH payloads: absent, "", "hi", 101 letters
PatchComments == {Undef, Str(<<>>), Str(Hi), Str(Repeat(97, 101))}

PatchBodies ==
  [user_id : {Undef}, password : {Undef}, nickname : PatchNicknames, comment : PatchComments]
  \cup {[NoBody EXCEPT !.user_id = Str(TaroYamada), !.nickname = Str(Bob)],
        [NoBody EXCEPT !.password = Null, !.comment = Str(Hi)]}

Basic(user, password) == [scheme |-> "basic", raw |-> user \o <<58>> \o password]

\* Authorization headers: none, another scheme, Basic without separator, and
\* Basic credentials of the two ids with either password and of the string
\* "123456"
Headers ==
  {NoHdr, [scheme |-> "other", raw |-> <<>>], [scheme |-> "basic", raw |-> TaroYamada],
   Basic(TaroYamada, PaSSwd4TY), Basic(TaroYamada, PassColon),
   Basic(Alice, PaSSwd4TY), Basic(Alice, PassColon),
   Basic(Digits(123456), PaSSwd4TY)}

\* req.params.user_id is always a string
Paths == {Str(TaroYamada), Str(Alice), Str(Digits(123456))}

Request(op, hdr, path, body) ==
  [IdleReq EXCEPT !.pc = "recv", !.op = op, !.hdr = hdr, !.path = path, !.body = body]

\* every combination of the values above: explored one request at a time
AllRequests ==
  {Request("signup", NoHdr, Undef, b) : b \in SignupBodies}
  \cup {Request("get", h, p, NoBody) : h \in Headers, p \in Paths}
  \cup {Request("patch", x[1], x[2], x[3]) : x \in Headers \X Paths \X PatchBodies}
  \cup {Request("close", h, Undef, NoBody) : h \in Headers}

\* the requests explored under every interleaving: the reserved account with
\* either password and a second account, each with and without profile
\* fields, a numeric user_id, a numeric password, the object as user_id and
\* as password, a password that is too short and an empty payload
RacingSignups ==
  {[user_id |-> x[1][1], password |-> x[1][2], nickname |-> x[2][1], comment |-> x[2][2]] :
     x \in {<<Str(TaroYamada), Str(PaSSwd4TY)>>, <<Str(TaroYamada), Str(PassColon)>>,
            <<Str(Alice), Str(PaSSwd4TY)>>}
           \X {<<Undef, Undef>>, <<Str(Bob), Str(Hi)>>}}
  \cup {[NoBody EXCEPT !.user_id = Num(123456), !.password = Str(PaSSwd4TY)],
        [NoBody EXCEPT !.user_id = Str(Alice), !.password = Num(12345678)],
        [NoBody EXCEPT !.user_id = Obj, !.password = Str(PaSSwd4TY)],
        [NoBody EXCEPT !.user_id = Str(TaroYamada), !.password = Obj],
        [NoBody EXCEPT !.user_id = Str(TaroYamada), !.password = Str(Repeat(80, 7))],
        NoBody}

RacingHeaders ==
  {NoHdr, Basic(TaroYamada, PaSSwd4TY), Basic(TaroYamada, PassColon), Basic(Alice, PaSSwd4TY)}

RacingPaths == {Str(TaroYamada), Str(Alice)}

RacingPatches ==
  {NoBody, [NoBody EXCEPT !.nickname = Str(Bob)], [NoBody EXCEPT !.comment = Str(Hi)],
   [NoBody EXCEPT !.comment = Str(<<>>)]}

Requests ==
  {Request("signup", NoHdr, Undef, b) : b \in RacingSignups}
  \cup {Request("get", h, p, NoBody) : h \in RacingHeaders, p \in RacingPaths}
  \cup {Request("patch", x[1], x[2], x[3]) :
          x \in (RacingHeaders \ {NoHdr}) \X RacingPaths \X RacingPatches}
  \cup {Request("close", h, Undef, NoBody) : h \in RacingHeaders}

(* ---------------- initial state ---------------- *)

\* The module has been evaluated: the Map is empty and seedReservedUser has
\* run up to its await, its users.has test having been made on the empty Map.
Init ==
  /\ users = {}
  /\ seed = "hash"
  /\ reqs = [r \in Slots |-> IdleReq]
  /\ signedUp = {}
  /\ closed = {}
  /\ cleared = {}
  /\ named = {}

(* ---------------- request arrival ---------------- *)

\* Express runs the handler of a parsed request in the turn of the event
\* loop that delivers it: "recv" shows the request between the two, and no
\* continuation of another handler runs while a request is in it.
Dispatched == \A q \in Slots : reqs[q].pc # "recv"

ReceiveFrom(r, set) ==
  /\ reqs[r].pc = "idle"
  /\ Dispatched
  /\ \A q \in Slots : q < r => reqs[q].pc # "idle"
  /\ \E req \in set : reqs' = [reqs EXCEPT ![r] = req]
  /\ UNCHANGED <<users, seed, hist>>

\* a request arrives while any number of others are in flight
Receive(r) == ReceiveFrom(r, Requests)

\* a request arrives when no other request is in flight
ReceiveAlone(r) ==
  /\ r <= MaxSerial
  /\ \A q \in Slots : reqs[q].pc \in {"idle", "done", "fault"}
  /\ ReceiveFrom(r, AllRequests)

(* ---------------- POST /signup ---------------- *)

\* the validation chain without its users.has test
SignupCauseNoDuplicate(body, m) ==
  CASE Falsy(body.user_id) \/ Falsy(body.password) -> "Required user_id and password"
    [] OTHER ->
  CASE LengthOutside(body.user_id, 6, 20) \/ LengthOutside(body.password, 8, 20) ->
         "Input length is incorrect"
    [] OTHER ->
  CASE ~isValidUserId(body.user_id) \/ ~isValidPassword(body.password) ->
         "Incorrect character pattern"
    [] OTHER -> ""

\* the validation chain of the handler, up to the users.has test:
\* the cause of the first failing check, "" when all pass
SignupCause(body, m) ==
  CASE Falsy(body.user_id) \/ Falsy(body.password) -> "Required user_id and password"
    [] OTHER ->
  CASE LengthOutside(body.user_id, 6, 20) \/ LengthOutside(body.password, 8, 20) ->
         "Input length is incorrect"
    [] OTHER ->
  CASE ~isValidUserId(body.user_id) \/ ~isValidPassword(body.password) ->
         "Incorrect character pattern"
    [] OTHER ->
  CASE MapHas(m, body.user_id) -> "Already same user_id is used"
    [] OTHER -> ""

\* the pattern test throws: the presence and length tests passed and
\* isValidUserId, or isValidPassword when it is reached, is handed a value
\* that has no string conversion
SignupThrows(body) ==
  /\ ~Falsy(body.user_id) /\ ~Falsy(body.password)
  /\ ~LengthOutside(body.user_id, 6, 20) /\ ~LengthOutside(body.password, 8, 20)
  /\ \/ ~HasString(body.user_id)
     \/ isValidUserId(body.user_id) /\ ~HasString(body.password)

\* the handler from its entry to `await bcrypt.hash(password, 10)`
SignupCheck(r) ==
  /\ reqs[r].pc = "recv"
  /\ reqs[r].op = "signup"
  /\ LET body == reqs[r].body
         cause == SignupCause(body, users)
     IN reqs' = [reqs EXCEPT ![r] =
                   IF SignupThrows(body) THEN [@ EXCEPT !.pc = "fault"]
                   ELSE IF cause # "" THEN Finished(r, SignupFailed(cause))
                   ELSE IF ~Hashable(body.password) THEN [@ EXCEPT !.pc = "fault"]
                   ELSE [@ EXCEPT !.pc = "hash"]]
  /\ UNCHANGED <<users, seed, hist>>

\* the record without the defaults of nickname and comment
SignupRecordNoDefault(body) ==
  [user_id |-> body.user_id,
   passwordHash |-> bcryptHash(body.password),
   nickname |-> body.nickname,
   comment |-> body.comment]

\* the record signup stores
SignupRecord(body) ==
  [user_id |-> body.user_id,
   passwordHash |-> bcryptHash(body.password),
   nickname |-> Coalesce(body.nickname, body.user_id),
   comment |-> Coalesce(body.comment, Null)]

\* the handler after the hash resolved: users.set and the 200 response
SignupInsert(r) ==
  /\ reqs[r].pc = "hash"
  /\ Dispatched
  /\ LET body == reqs[r].body
     IN /\ users' = MapSet(users, body.user_id, SignupRecord(body))
        /\ reqs' = [q \in Slots |->
                      IF q = r
                      THEN Finished(r, Response(200, "Account successfully created", "",
                                      [user_id |-> body.user_id, nickname |-> body.user_id,
                                       comment |-> Undef]))
                      ELSE IF reqs[q].pc = "hash" /\ reqs[q].body.user_id = body.user_id
                      THEN [reqs[q] EXCEPT !.lost = TRUE]
                      ELSE reqs[q]]
        /\ signedUp' = signedUp \cup {body.user_id}
        /\ closed' = closed \ {body.user_id}
  /\ UNCHANGED <<seed, cleared, named>>

(* ---------------- authUserAsync ---------------- *)

\* authUserAsync up to `await bcrypt.compare`, and the 401 of the calling
\* handler when it returns {ok: false} without awaiting
AuthStart(r) ==
  /\ reqs[r].pc = "recv"
  /\ reqs[r].op \in {"get", "patch", "close"}
  /\ LET cred == parseBasicAuth(reqs[r].hdr)
     IN reqs' = [reqs EXCEPT ![r] =
                   IF ~cred.present \/ ~MapHas(users, Str(cred.user_id))
                   THEN Finished(r, AuthFailed)
                   ELSE [@ EXCEPT !.pc = "compare", !.u = MapGet(users, Str(cred.user_id))]]
  /\ UNCHANGED <<users, seed, hist>>

\* the value bcrypt.compare resolves to for request r
AuthOk(r) ==
  bcryptCompare(parseBasicAuth(reqs[r].hdr).password, reqs[r].u.passwordHash)

\* u.nickname === undefined || u.nickname === "" ? u.user_id : u.nickname
EffectiveNickname(u) ==
  IF u.nickname = Undef \/ u.nickname = Str(<<>>) THEN u.user_id ELSE u.nickname

(* ---------------- GET /users/:user_id ---------------- *)

GetView(u) ==
  [user_id |-> u.user_id,
   nickname |-> EffectiveNickname(u),
   comment |-> IF u.comment # Undef /\ u.comment # Str(<<>>) THEN u.comment ELSE Undef]

\* the handler with the lookup of the path ahead of the 401
GetFinishLookupFirst(r) ==
  /\ reqs[r].pc = "compare"
  /\ Dispatched
  /\ reqs[r].op = "get"
  /\ reqs' = [reqs EXCEPT ![r] =
                IF ~MapHas(users, reqs[r].path) THEN Finished(r, NotFound)
                ELSE IF ~AuthOk(r) THEN Finished(r, AuthFailed)
                ELSE Finished(r, Response(200, "User details by user_id", "",
                                          GetView(MapGet(users, reqs[r].path))))]
  /\ UNCHANGED <<users, seed, hist>>

\* the handler after authUserAsync resolved
GetFinish(r) ==
  /\ reqs[r].pc = "compare"
  /\ Dispatched
  /\ reqs[r].op = "get"
  /\ reqs' = [reqs EXCEPT ![r] =
                IF ~AuthOk(r) THEN Finished(r, AuthFailed)
                ELSE IF ~MapHas(users, reqs[r].path) THEN Finished(r, NotFound)
                ELSE Finished(r, Response(200, "User details by user_id", "",
                                          GetView(MapGet(users, reqs[r].path))))]
  /\ UNCHANGED <<users, seed, hist>>

(* ---------------- PATCH /users/:user_id ---------------- *)

\* Object.prototype.hasOwnProperty.call(req.body || {}, key): a parsed JSON
\* body has the key exactly when its value is not undefined
HasOwn(v) == v # Undef

\* typeof v !== "string" || (v !== "" && (!noCtrl(v) || v.length > max))
BadText(v, max) ==
  v.t # "string" \/ (Len(v.s) # 0 /\ (~noCtrl(v.s) \/ Len(v.s) > max))

\* the payload checks of the handler: the cause of the first failing one,
\* "" when the payload is accepted
PatchCause(body) ==
  CASE body.user_id # Undef \/ body.password # Undef -> "Not updatable user_id and password"
    [] OTHER ->
  CASE ~HasOwn(body.nickname) /\ ~HasOwn(body.comment) -> "Required nickname or comment"
    [] OTHER ->
  CASE HasOwn(body.nickname) /\ BadText(body.nickname, 30) ->
         "String length limit exceeded or containing invalid characters"
    [] OTHER ->
  CASE HasOwn(body.comment) /\ BadText(body.comment, 100) ->
         "String length limit exceeded or containing invalid characters"
    [] OTHER -> ""

\* the assignments without the reset of an empty nickname to user_id
PatchApplyNoReset(u, body) ==
  [u EXCEPT
     !.nickname = IF HasOwn(body.nickname) THEN body.nickname ELSE @,
     !.comment = IF HasOwn(body.comment) THEN body.comment ELSE @]

\* the two assignments to the stored record
PatchApply(u, body) ==
  [u EXCEPT
     !.nickname = IF HasOwn(body.nickname)
                  THEN (IF body.nickname = Str(<<>>) THEN u.user_id ELSE body.nickname)
                  ELSE @,
     !.comment = IF HasOwn(body.comment)
                 THEN (IF body.comment = Str(<<>>) THEN Str(<<>>) ELSE body.comment)
                 ELSE @]

PatchView(u) ==
  [user_id |-> u.user_id,
   nickname |-> EffectiveNickname(u),
   comment |-> IF u.comment = Undef THEN Str(<<>>) ELSE u.comment]

\* the record authUserAsync read before its await, as it was then
PatchTargetStale(r, m) == reqs[r].u

\* const u = users.get(user_id): the record the handler reads after
\* authUserAsync resolved and then assigns to
PatchTarget(r, m) == MapGet(m, reqs[r].path)

\* the response with the ownership test ahead of the existence test
PatchResponseOwnerFirst(r, m) ==
  IF ~AuthOk(r) THEN AuthFailed
  ELSE IF reqs[r].u.user_id # reqs[r].path THEN Forbidden
  ELSE IF ~MapHas(m, reqs[r].path) THEN NotFound
  ELSE IF PatchCause(reqs[r].body) # "" THEN UpdateFailed(PatchCause(reqs[r].body))
  ELSE Response(200, "User successfully updated", "",
                PatchView(PatchApply(PatchTarget(r, m), reqs[r].body)))

\* the response of the handler after authUserAsync resolved, the Map being m
PatchResponse(r, m) ==
  IF ~AuthOk(r) THEN AuthFailed
  ELSE IF ~MapHas(m, reqs[r].path) THEN NotFound
  ELSE IF reqs[r].u.user_id # reqs[r].path THEN Forbidden
  ELSE IF PatchCause(reqs[r].body) # "" THEN UpdateFailed(PatchCause(reqs[r].body))
  ELSE Response(200, "User successfully updated", "",
                PatchView(PatchApply(PatchTarget(r, m), reqs[r].body)))

\* history of a PATCH that responds resp
PatchHistory(r, resp) ==
  LET key == reqs[r].path
      body == reqs[r].body
  IN /\ cleared' = IF resp.status # 200 \/ body.comment = Undef THEN cleared
                    ELSE IF body.comment = Str(<<>>) THEN cleared \cup {key}
                    ELSE cleared \ {key}
     /\ named' = IF resp.status # 200 \/ body.nickname = Undef THEN named
                  ELSE {x \in named : x[1] # key}
                       \cup (IF body.nickname = Str(<<>>) \/ key \notin signedUp THEN {}
                             ELSE {<<key, body.nickname>>})
     /\ UNCHANGED <<signedUp, closed>>

\* the handler with the assignments made ahead of the payload checks
PatchFinishEager(r) ==
  /\ reqs[r].pc = "compare"
  /\ Dispatched
  /\ reqs[r].op = "patch"
  /\ LET resp == PatchResponse(r, users)
     IN /\ reqs' = [reqs EXCEPT ![r] = Finished(r, resp)]
        /\ users' = IF resp.status \in {200, 400}
                    THEN MapSet(users, reqs[r].path,
                                PatchApply(PatchTarget(r, users), reqs[r].body))
                    ELSE users
        /\ PatchHistory(r, resp)
  /\ UNCHANGED seed

\* the handler after authUserAsync resolved
PatchFinish(r) ==
  /\ reqs[r].pc = "compare"
  /\ Dispatched
  /\ reqs[r].op = "patch"
  /\ LET resp == PatchResponse(r, users)
     IN /\ reqs' = [reqs EXCEPT ![r] = Finished(r, resp)]
        /\ users' = IF resp.status = 200
                    THEN MapSet(users, reqs[r].path,
                                PatchApply(PatchTarget(r, users), reqs[r].body))
                    ELSE users
        /\ PatchHistory(r, resp)
  /\ UNCHANGED seed

(* ---------------- POST /close ---------------- *)

\* the handler after authUserAsync resolved
CloseFinish(r) ==
  /\ reqs[r].pc = "compare"
  /\ Dispatched
  /\ reqs[r].op = "close"
  /\ IF ~AuthOk(r)
     THEN /\ reqs' = [reqs EXCEPT ![r] = Finished(r, AuthFailed)]
          /\ UNCHANGED <<users, hist>>
     ELSE /\ users' = MapDelete(users, reqs[r].u.user_id)
          /\ reqs' = [reqs EXCEPT ![r] =
                        Finished(r, Response(200, "Account and user successfully removed",
                                             "", NoView))]
          /\ signedUp' = signedUp \ {reqs[r].u.user_id}
          /\ closed' = closed \cup {reqs[r].u.user_id}
          /\ cleared' = cleared \ {reqs[r].u.user_id}
          /\ named' = {x \in named : x[1] # reqs[r].u.user_id}
  /\ UNCHANGED seed

(* ---------------- seedReservedUser ---------------- *)

SeedRecord ==
  [user_id |-> Str(TaroYamada),
   passwordHash |-> bcryptHash(Str(PaSSwd4TY)),
   nickname |-> Str(TaroYamada),
   comment |-> Str(<<>>)]

\* the seed after its hash resolved
SeedInsert ==
  /\ seed = "hash"
  /\ Dispatched
  /\ users' = MapSet(users, Str(TaroYamada), SeedRecord)
  /\ seed' = "done"
  /\ closed' = closed \ {Str(TaroYamada)}
  /\ UNCHANGED <<reqs, signedUp, cleared, named>>

(* ---------------- specification ---------------- *)

Next ==
  \/ SeedInsert
  \/ \E r \in Slots : Receive(r)
  \/ \E r \in Slots : SignupCheck(r)
  \/ \E r \in Slots : SignupInsert(r)
  \/ \E r \in Slots : AuthStart(r)
  \/ \E r \in Slots : GetFinish(r)
  \/ \E r \in Slots : PatchFinish(r)
  \/ \E r \in Slots : CloseFinish(r)

Spec == Init /\ [][Next]_vars

\* the same handlers, one request at a time, over all the inputs
NextSerial ==
  \/ SeedInsert
  \/ \E r \in Slots : ReceiveAlone(r)
  \/ \E r \in Slots : SignupCheck(r)
  \/ \E r \in Slots : SignupInsert(r)
  \/ \E r \in Slots : AuthStart(r)
  \/ \E r \in Slots : GetFinish(r)
  \/ \E r \in Slots : PatchFinish(r)
  \/ \E r \in Slots : CloseFinish(r)

SpecSerial == Init /\ [][NextSerial]_vars

(* ---------------- properties ---------------- *)

\* request r sends its response in this step
Responds(r) == reqs[r].pc \in {"recv", "hash", "compare"} /\ reqs'[r].pc = "done"

\* the credentials of request r match the record now stored under their user_id
CredMatchesStored(r) ==
  LET cred == parseBasicAuth(reqs[r].hdr)
  IN /\ cred.present
     /\ MapHas(users, Str(cred.user_id))
     /\ bcryptCompare(cred.password, MapGet(users, Str(cred.user_id)).passwordHash)

\* C1: whenever a PATCH or close request changes the store (updates a
\* nickname or comment, or deletes a record), the record it changes is the
\* one stored under the user_id of its credentials and the password of its
\* credentials matches that record as stored at the moment of the change.
C1_OwnerOnly ==
  [][\A r \in Slots :
       (reqs[r].pc = "compare" /\ Responds(r) /\ users' # users)
       => /\ CredMatchesStored(r)
          /\ \A e \in users :
               e.key # Str(parseBasicAuth(reqs[r].hdr).user_id) => e \in users']_vars

\* C2: a signup that was awaiting its hash when another signup for the same
\* user_id responded 200 does not respond 200 itself (of two such racing
\* signups at most one succeeds, and the loser does not replace the record).
C2_OneWinner ==
  \A r \in Slots :
    ~(reqs[r].op = "signup" /\ reqs[r].pc = "done" /\ reqs[r].resp.status = 200
      /\ reqs[r].lost)

\* C3: the store holds at most one record per user_id, every record is
\* stored under its own user_id, and no step changes the user_id of a record
\* that stays in the store.
C3_UniqueKey ==
  /\ [](/\ \A e \in users, f \in users : e.key = f.key => e = f
        /\ \A e \in users : e.val.user_id = e.key)
  /\ [][\A e \in users, f \in users' : e.key = f.key => f.val.user_id = e.val.user_id]_vars

\* two accounts are stored and a PATCH has rewritten one of them
C3_Witness ==
  /\ Cardinality(users) >= 2
  /\ \E r \in Slots :
       reqs[r].op = "patch" /\ reqs[r].pc = "done" /\ reqs[r].resp.status = 200

\* the handler of signup request r runs its checks in this step
SignupChecked(r) ==
  reqs[r].pc = "recv" /\ reqs[r].op = "signup" /\ reqs'[r].pc # "recv"

AlreadyUsed == SignupFailed("Already same user_id is used")

WellFormed(body) ==
  /\ ~Falsy(body.user_id) /\ ~Falsy(body.password)
  /\ ~LengthOutside(body.user_id, 6, 20) /\ ~LengthOutside(body.password, 8, 20)
  /\ HasString(body.user_id) /\ HasString(body.password)
  /\ isValidUserId(body.user_id) /\ isValidPassword(body.password)

Rule1Fails(body) ==
  body.user_id \in {Undef, Str(<<>>)} \/ body.password \in {Undef, Str(<<>>)}

Rule2Fails(body) ==
  \/ body.user_id.t = "string" /\ Len(body.user_id.s) \notin 6..20
  \/ body.password.t = "string" /\ Len(body.password.s) \notin 8..20

Rule3Fails(body) ==
  \/ ~HasString(body.user_id) \/ ~isValidUserId(body.user_id)
  \/ ~HasString(body.password) \/ ~isValidPassword(body.password)

Rule4Fails(body, m) == body.user_id \in MapKeys(m)

\* C5: a signup's checks respond 400 with the cause of the first failing
\* rule, in the order presence, length, pattern, duplicate, and leave the
\* store unchanged; only a payload that passes all four goes on to be hashed,
\* and only a request that went on to be hashed responds 200.
C5_FirstFailingRule ==
  /\ [][\A r \in Slots :
          SignupChecked(r) =>
            LET body == reqs[r].body
                expected ==
                  IF Rule1Fails(body) THEN "Required user_id and password"
                  ELSE IF Rule2Fails(body) THEN "Input length is incorrect"
                  ELSE IF Rule3Fails(body) THEN "Incorrect character pattern"
                  ELSE IF Rule4Fails(body, users) THEN "Already same user_id is used"
                  ELSE ""
            IN IF expected # ""
               THEN /\ reqs'[r].pc = "done"
                    /\ reqs'[r].resp = Response(400, "Account creation failed", expected, NoView)
                    /\ users' = users
               ELSE reqs'[r].pc \in {"hash", "fault"}]_vars
  /\ [][\A r \in Slots :
          (reqs'[r].op = "signup" /\ reqs'[r].resp.status = 200 /\ reqs[r].resp.status # 200)
          => reqs[r].pc = "hash"]_vars

\* PATCH request r sends its response in this step
PatchResponds(r) == reqs[r].op = "patch" /\ Responds(r)

\* request r is authenticated: its credentials parsed, named a stored record
\* and its password matched that record's hash
Authenticated(r) == reqs[r].pc = "compare" /\ AuthOk(r)

\* the user_id of the authenticated principal of request r
Principal(r) == Str(parseBasicAuth(reqs[r].hdr).user_id)

\* the payload carries a forbidden key, carries neither field, or carries a
\* field that is not an acceptable string
PayloadError(body) ==
  \/ body.user_id # Undef
  \/ body.password # Undef
  \/ body.nickname = Undef /\ body.comment = Undef
  \/ body.nickname # Undef /\ BadText(body.nickname, 30)
  \/ body.comment # Undef /\ BadText(body.comment, 100)

\* C6: the status of a PATCH response is 401 exactly when authentication
\* failed, else 404 exactly when the path user_id is not stored, else 403
\* exactly when the principal is not the path user_id, else 400 exactly when
\* the payload is in error, else 200.
C6_CheckOrder ==
  [][\A r \in Slots :
       PatchResponds(r) =>
         reqs'[r].resp.status =
           IF ~Authenticated(r) THEN 401
           ELSE IF reqs[r].path \notin MapKeys(users) THEN 404
           ELSE IF Principal(r) # reqs[r].path THEN 403
           ELSE IF PayloadError(reqs[r].body) THEN 400
           ELSE 200]_vars

\* an authenticated PATCH of a user_id that is not stored was answered 404
C6_Witness ==
  \E r \in Slots : reqs[r].op = "patch" /\ reqs[r].pc = "done" /\ reqs[r].resp = NotFound

\* C7: an authenticated PATCH whose path names another stored user responds
\* 403, and a PATCH that responds anything but 200 leaves the store unchanged.
C7_ForeignPatch ==
  [][\A r \in Slots :
       PatchResponds(r) =>
         /\ (Authenticated(r) /\ reqs[r].path \in MapKeys(users)
               /\ Principal(r) # reqs[r].path)
            => reqs'[r].resp = Forbidden
         /\ reqs'[r].resp.status # 200 => users' = users]_vars

\* a PATCH was answered 403 while two accounts are stored
C7_Witness ==
  /\ Cardinality(users) >= 2
  /\ \E r \in Slots : reqs[r].op = "patch" /\ reqs[r].pc = "done" /\ reqs[r].resp = Forbidden

\* C8: a PATCH that responds 200 changes only the record of its path; in it
\* an absent field keeps its stored value, nickname "" stores the record's
\* user_id, comment "" stores "", any other value is stored as given, and
\* user_id and passwordHash keep their values.
C8_ThreeWay ==
  [][\A r \in Slots :
       (PatchResponds(r) /\ reqs'[r].resp.status = 200) =>
         LET body == reqs[r].body
             old == MapGet(users, reqs[r].path)
             new == MapGet(users', reqs[r].path)
         IN /\ MapKeys(users') = MapKeys(users)
            /\ \A e \in users : e.key # reqs[r].path => e \in users'
            /\ new.user_id = old.user_id
            /\ new.passwordHash = old.passwordHash
            /\ new.nickname = IF body.nickname = Undef THEN old.nickname
                              ELSE IF body.nickname = Str(<<>>) THEN old.user_id
                              ELSE body.nickname
            /\ new.comment = IF body.comment = Undef THEN old.comment
                             ELSE body.comment]_vars

\* a PATCH that cleared the comment of a record with a custom nickname
\* responded 200, and the nickname is still stored
C8_Witness ==
  \E r \in Slots, e \in users :
    /\ reqs[r].op = "patch" /\ reqs[r].pc = "done" /\ reqs[r].resp.status = 200
    /\ reqs[r].resp.user.user_id = e.key
    /\ e.key = Str(Alice)
    /\ e.val.nickname = Str(Bob) /\ e.val.comment = Str(<<>>)

\* C9: a 200 response of GET either omits comment or carries a non-empty
\* string; it never carries null.
C9_CommentOmitted ==
  \A r \in Slots :
    (reqs[r].op = "get" /\ reqs[r].pc = "done" /\ reqs[r].resp.status = 200)
    => \/ reqs[r].resp.user.comment = Undef
       \/ reqs[r].resp.user.comment.t = "string" /\ Len(reqs[r].resp.user.comment.s) > 0

\* C10: a 200 response of PATCH carries comment as a string.
C10_CommentString ==
  \A r \in Slots :
    (reqs[r].op = "patch" /\ reqs[r].pc = "done" /\ reqs[r].resp.status = 200)
    => reqs[r].resp.user.comment.t = "string"

\* C13: a close that responds 200 removes a record: the record of its
\* principal is in the store when the handler calls users.delete.
C13_CloseRemoves ==
  [][\A r \in Slots :
       (reqs[r].op = "close" /\ Responds(r) /\ reqs'[r].resp.status = 200)
       => (reqs[r].u.user_id \in MapKeys(users) /\ users' # users)]_vars

\* C19: when the seed writes, no TaroYamada record is in the store (the
\* seed inserts and never replaces), and the seed writes at most once.
C19_SeedIfAbsent ==
  [][/\ (seed = "hash" /\ seed' = "done") => Str(TaroYamada) \notin MapKeys(users)
     /\ seed = "done" => seed' = "done"]_vars

\* C20: every key of the store is a string of 6 to 20 ASCII letters or digits.
C20_StringKeys ==
  \A e \in users :
    /\ e.key.t = "string"
    /\ Len(e.key.s) \in 6..20
    /\ \A i \in 1..Len(e.key.s) : IsAlnum(e.key.s[i])

\* signup request r responds 200 in this step
SignupSucceeds(r) ==
  reqs[r].op = "signup" /\ Responds(r) /\ reqs'[r].resp.status = 200

\* GET request r responds 200 in this step
GetSucceeds(r) ==
  reqs[r].op = "get" /\ Responds(r) /\ reqs'[r].resp.status = 200

\* the record a successful signup stores and the nickname its response
\* reports: the supplied nickname or else user_id, the supplied comment or
\* else null, and user_id as the nickname of the response
SignupStoresDefaults(r) ==
  LET body == reqs[r].body
      new == MapGet(users', body.user_id)
  IN /\ body.user_id \in MapKeys(users')
     /\ new.user_id = body.user_id
     /\ new.nickname = IF body.nickname = Undef THEN body.user_id ELSE body.nickname
     /\ new.comment = IF body.comment = Undef THEN Null ELSE body.comment
     /\ reqs'[r].resp.user.user_id = body.user_id
     /\ reqs'[r].resp.user.nickname = body.user_id

\* C16 as stated: a successful signup stores the supplied nickname (user_id
\* if none) and the supplied comment (null if none) and reports nickname =
\* user_id; a successful GET returns the nickname stored in the record.
C16_Original ==
  [][/\ \A r \in Slots : SignupSucceeds(r) => SignupStoresDefaults(r)
     /\ \A r \in Slots :
          GetSucceeds(r) => reqs'[r].resp.user.nickname = MapGet(users, reqs[r].path).nickname]_vars

\* C16 amended: the same for signup; a successful GET returns the nickname
\* stored in the record, or the record's user_id when the stored nickname is
\* the empty string.
C16_Amended ==
  [][/\ \A r \in Slots : SignupSucceeds(r) => SignupStoresDefaults(r)
     /\ \A r \in Slots :
          GetSucceeds(r) =>
            LET u == MapGet(users, reqs[r].path)
            IN reqs'[r].resp.user.nickname =
                 IF u.nickname = Str(<<>>) THEN u.user_id ELSE u.nickname]_vars

\* a signup with a custom nickname echoed user_id, and a later GET of the
\* account returned the custom nickname
C16_Witness ==
  \E q \in Slots, r \in Slots :
    /\ q < r
    /\ reqs[q].op = "signup" /\ reqs[q].pc = "done" /\ reqs[q].resp.status = 200
    /\ reqs[q].resp.user.nickname = Str(Alice)
    /\ reqs[r].op = "get" /\ reqs[r].pc = "done" /\ reqs[r].resp.status = 200
    /\ reqs[r].resp.user.user_id = Str(Alice)
    /\ reqs[r].resp.user.nickname = Str(Bob)

\* the credentials of request r fail: no Authorization header, a header that
\* is not Basic, no ':' in the decoded text, a user_id that was not stored
\* when the request arrived, or a password that does not match the record
\* stored under that user_id when the request arrived
CredentialsFail(r) ==
  LET hdr == reqs[r].hdr
      user == Str(SubSeq(hdr.raw, 1, IndexOfColon(hdr.raw) - 1))
      password == SubSeq(hdr.raw, IndexOfColon(hdr.raw) + 1, Len(hdr.raw))
  IN \/ hdr.scheme # "basic"
     \/ IndexOfColon(hdr.raw) = 0
     \/ reqs[r].pc = "recv" /\ user \notin MapKeys(users)
     \/ reqs[r].pc = "compare" /\ reqs[r].u.passwordHash # bcryptHash(Str(password))

\* C17: a GET, PATCH or close whose credentials fail responds 401
\* "Authentication failed", whether or not its path is stored, and leaves the
\* store unchanged; a request whose credentials fail never goes on to the
\* handler's later checks.
C17_AuthFailure ==
  [][\A r \in Slots :
       (reqs[r].op \in {"get", "patch", "close"} /\ reqs'[r].pc # reqs[r].pc
          /\ CredentialsFail(r))
       => (reqs'[r].pc = "done" /\ reqs'[r].resp = AuthFailed /\ users' = users)]_vars

\* with the reserved account stored, a close and a later PATCH were both
\* answered 401
C17_Witness ==
  /\ Str(TaroYamada) \in MapKeys(users)
  /\ \E q \in Slots, r \in Slots :
       /\ q < r
       /\ reqs[q].op = "close" /\ reqs[q].pc = "done" /\ reqs[q].resp = AuthFailed
       /\ reqs[r].op = "patch" /\ reqs[r].pc = "done" /\ reqs[r].resp = AuthFailed

C18_AlwaysResponds == \A r \in Slots : reqs[r].pc # "fault"

\* C11: a PATCH with comment "" that responds 200 reports comment "", and
\* from then until a PATCH of that account sets a non-empty comment or the
\* account is closed, every GET of it that responds 200 omits comment.
C11_ClearedComment ==
  [][/\ \A r \in Slots :
          (PatchResponds(r) /\ reqs'[r].resp.status = 200 /\ reqs[r].body.comment = Str(<<>>))
          => reqs'[r].resp.user.comment = Str(<<>>)
     /\ \A r \in Slots :
          (GetSucceeds(r) /\ reqs[r].path \in cleared)
          => reqs'[r].resp.user.comment = Undef]_vars

\* the record of key k is created, replaced or removed in this step
Created(k) == k \notin MapKeys(users) /\ k \in MapKeys(users')

Replaced(k) ==
  k \in MapKeys(users) /\ k \in MapKeys(users') /\ MapGet(users', k) # MapGet(users, k)

Removed(k) == k \in MapKeys(users) /\ k \notin MapKeys(users')

\* C12: a GET, PATCH or close that arrives with credentials of a closed
\* account responds 401 and a GET of a closed account by an authenticated
\* user responds 404, until the account is created again; a record is created
\* only by a signup that responds 200 (or, for TaroYamada, by the start-up
\* seed), replaced only by a PATCH of it that responds 200, and removed only
\* by a close of it that responds 200.
C12_Lifecycle ==
  [][/\ \A r \in Slots :
          (reqs[r].pc = "recv" /\ reqs[r].op \in {"get", "patch", "close"}
             /\ reqs'[r].pc # "recv"
             /\ parseBasicAuth(reqs[r].hdr).present /\ Principal(r) \in closed)
          => reqs'[r].resp = AuthFailed
     /\ \A r \in Slots :
          (reqs[r].op = "get" /\ Responds(r) /\ Authenticated(r) /\ reqs[r].path \in closed)
          => reqs'[r].resp = NotFound
     /\ \A k \in MapKeys(users) \cup MapKeys(users') :
          /\ Created(k) =>
               \/ \E r \in Slots : SignupSucceeds(r) /\ reqs[r].body.user_id = k
               \/ k = Str(TaroYamada) /\ seed = "hash" /\ seed' = "done"
          /\ Replaced(k) =>
               \E r \in Slots :
                 PatchResponds(r) /\ reqs'[r].resp.status = 200 /\ reqs[r].path = k
          /\ Removed(k) =>
               \E r \in Slots :
                 /\ reqs[r].op = "close" /\ Responds(r) /\ reqs'[r].resp.status = 200
                 /\ Principal(r) = k]_vars

\* C15: from a PATCH of a signed-up account that responds 200 and sets the
\* non-empty nickname v until the next such PATCH of its nickname or its
\* close, a GET of the account by an authenticated user, the owner or not,
\* responds 200 with nickname v; no step of a GET changes the store.
C15_RoundTrip ==
  [][/\ \A r \in Slots :
          (reqs[r].op = "get" /\ Responds(r) /\ Authenticated(r))
          => \A x \in named :
               x[1] = reqs[r].path
               => (reqs'[r].resp.status = 200 /\ reqs'[r].resp.user.nickname = x[2])
     /\ \A r \in Slots :
          (reqs[r].op = "get" /\ reqs'[r].pc # reqs[r].pc) => users' = users]_vars

====
